---- MODULE Spec2Model ----
(***************************************************************************)
(* Content ranking engine of StoryPeek: the keyword tokenizer, the         *)
(* pairwise similarity score, the "related posts" and "trending" hooks     *)
(* (src/src/hooks/useRecommendations.tsx), and the relevance score and     *)
(* the search hook (useSearch, src/unnamed/part_002).                      *)
(*                                                                         *)
(* Representation.                                                         *)
(*  - A JavaScript string is a sequence of one-character strings.          *)
(*  - created_at is the instant of the post in whole hours, i.e. the       *)
(*    value of new Date(created_at).getTime() divided by the 3600000 ms    *)
(*    of an hour.  The column is TIMESTAMP WITH TIME ZONE NOT NULL, so     *)
(*    every created_at parses to a finite instant.                         *)
(*  - A score is a rational number, held exactly as an integer number of   *)
(*    1/ScoreUnit parts; ScoreUnit is divisible by 5, by the hours of a    *)
(*    year and by every keyword-union size up to 10, so that each          *)
(*    division the code performs is exact here.                            *)
(***************************************************************************)
EXTENDS Integers, Sequences, FiniteSets, TLC

VARIABLES
    currentPost,      \* useRecommendations: the reference post or NoPost
    allPosts,         \* useRecommendations: the corpus handed in by the page
    limit,            \* useRecommendations: the limit argument
    recommendations,  \* useRecommendations: the value the hook returned
    recPc,            \* "ready" before the hook ran, "done" after
    post1,            \* calculateSimilarity: first argument
    post2,            \* calculateSimilarity: second argument
    simScore,         \* calculateSimilarity: the returned score
    simPc,            \* "ready" before the call, "done" after
    tokText,          \* extractKeywords: the argument
    keywords,         \* extractKeywords: the returned array
    tokPc,            \* "ready" before the call, "done" after
    trendPosts,       \* useTrendingPosts: the corpus
    trendLimit,       \* useTrendingPosts: the limit argument
    now,              \* useTrendingPosts: the clock, in hours, at the call
    trendingPosts,    \* useTrendingPosts: the value the hook returned
    trendPc,          \* "ready" before the hook ran, "done" after
    item,             \* calculateRelevance: the item
    searchTerms,      \* calculateRelevance: the terms
    relevance,        \* calculateRelevance: the returned score
    relPc,            \* "ready" before the call, "done" after
    searchItems,      \* useSearch: the corpus
    searchQuery,      \* useSearch: the query state
    filteredItems,    \* useSearch: filteredItems of the last render
    hasResults,       \* useSearch: hasResults of the last render
    isSearching,      \* useSearch: isSearching of the last render
    memo,             \* useMemo: per hook the dependencies and the value kept
    pending,          \* the hooks whose arguments or clock changed since
                      \* their last render
    routeId,          \* PostDetail: the id of useParams
    detailPost,       \* PostDetail: the id of the post state, or "none"
    detailAllPosts,   \* PostDetail: the ids of the allPosts state
    loading,          \* PostDetail: the loading state
    postFetches,      \* PostDetail: the fetchPost calls, in the order made
    allPostsFetches,  \* PostDetail: the fetchAllPosts calls, in that order
    rows,             \* the ids of the rows of the posts table
    navigations       \* PostDetail: changes of the route id so far

recVars == <<currentPost, allPosts, limit, recommendations, recPc>>
simVars == <<post1, post2, simScore, simPc>>
tokVars == <<tokText, keywords, tokPc>>
trendVars == <<trendPosts, trendLimit, now, trendingPosts, trendPc>>
relVars == <<item, searchTerms, relevance, relPc>>
searchVars ==
    <<searchItems, searchQuery, filteredItems, hasResults, isSearching>>
memoVars == <<memo, pending>>
detailVars == <<routeId, detailPost, detailAllPosts, loading, postFetches,
                allPostsFetches, rows, navigations>>
vars == <<currentPost, allPosts, limit, recommendations, recPc,
          post1, post2, simScore, simPc,
          tokText, keywords, tokPc,
          trendPosts, trendLimit, now, trendingPosts, trendPc,
          item, searchTerms, relevance, relPc,
          searchItems, searchQuery, filteredItems, hasResults, isSearching,
          memo, pending,
          routeId, detailPost, detailAllPosts, loading, postFetches,
          allPostsFetches, rows, navigations>>

-----------------------------------------------------------------------------
(* Bounds of the model                                                     *)

MaxPosts == 3
MaxLimit == 2

-----------------------------------------------------------------------------
(* Constants of the program                                                *)

DefaultLimit == 3
DaysPerYear == 365
HoursPerDay == 24

\* One whole score, in parts: 5 * hours of a year * lcm(1..10).
ScoreUnit == 5 * (DaysPerYear * HoursPerDay) * (8 * 9 * 5 * 7)

Max(a, b) == IF a >= b THEN a ELSE b
Min(a, b) == IF a <= b THEN a ELSE b
Abs(a) == IF a < 0 THEN 0 - a ELSE a

-----------------------------------------------------------------------------
(* Strings                                                                 *)

Upper == <<"A", "B", "C", "D", "E", "F", "G", "H", "I", "J", "K", "L", "M",
           "N", "O", "P", "Q", "R", "S", "T", "U", "V", "W", "X", "Y", "Z">>
Lower == <<"a", "b", "c", "d", "e", "f", "g", "h", "i", "j", "k", "l", "m",
           "n", "o", "p", "q", "r", "s", "t", "u", "v", "w", "x", "y", "z">>

LowerLetters == {Lower[i] : i \in 1..26}

\* the characters the regular expression class \s matches
Whitespace == {" ", "\t", "\n"}

toLowerCaseChar(c) ==
    IF \E i \in 1..26 : Upper[i] = c
    THEN Lower[CHOOSE i \in 1..26 : Upper[i] = c]
    ELSE c

\* String.prototype.toLowerCase
toLowerCase(s) == [i \in 1..Len(s) |-> toLowerCaseChar(s[i])]

\* .replace(/[^a-z\s]/g, " ")
replaceNonLetters(s) ==
    [i \in 1..Len(s) |->
        IF s[i] \in LowerLetters \cup Whitespace THEN s[i] ELSE " "]

\* .split(/\s+/): cut at every maximal run of whitespace.  A run at the
\* start or the end of the string leaves an empty first or last piece, and
\* the empty string splits into one empty piece.
RECURSIVE splitFrom(_, _, _)
splitFrom(s, i, cur) ==
    IF i > Len(s) THEN <<cur>>
    ELSE IF s[i] \in Whitespace
         THEN IF i > 1 /\ s[i - 1] \in Whitespace
              THEN splitFrom(s, i + 1, cur)
              ELSE <<cur>> \o splitFrom(s, i + 1, << >>)
         ELSE splitFrom(s, i + 1, Append(cur, s[i]))

splitWhitespace(s) == splitFrom(s, 1, << >>)

\* template literal `${a} ${b}`
joinWithSpace(a, b) == a \o <<" ">> \o b

\* new Set(array)
SetOf(array) == {array[i] : i \in 1..Len(array)}

-----------------------------------------------------------------------------
(* Tokenizer                                                               *)

stopWords ==
    { <<"t", "h", "e">>,
      <<"a">>,
      <<"a", "n">>,
      <<"a", "n", "d">>,
      <<"o", "r">>,
      <<"b", "u", "t">>,
      <<"i", "n">>,
      <<"o", "n">>,
      <<"a", "t">>,
      <<"t", "o">>,
      <<"f", "o", "r">>,
      <<"o", "f">>,
      <<"w", "i", "t", "h">>,
      <<"b", "y">>,
      <<"f", "r", "o", "m">>,
      <<"i", "s">>,
      <<"i", "t">>,
      <<"t", "h", "a", "t">>,
      <<"t", "h", "i", "s">>,
      <<"w", "a", "s">>,
      <<"w", "e", "r", "e">>,
      <<"a", "r", "e">>,
      <<"b", "e">>,
      <<"b", "e", "e", "n">>,
      <<"b", "e", "i", "n", "g">>,
      <<"h", "a", "v", "e">>,
      <<"h", "a", "s">>,
      <<"h", "a", "d">>,
      <<"d", "o">>,
      <<"d", "o", "e", "s">>,
      <<"d", "i", "d">>,
      <<"w", "i", "l", "l">>,
      <<"w", "o", "u", "l", "d">>,
      <<"c", "o", "u", "l", "d">>,
      <<"s", "h", "o", "u", "l", "d">>,
      <<"m", "a", "y">>,
      <<"m", "i", "g", "h", "t">>,
      <<"m", "u", "s", "t">>,
      <<"s", "h", "a", "l", "l">>,
      <<"i">>,
      <<"y", "o", "u">>,
      <<"h", "e">>,
      <<"s", "h", "e">>,
      <<"w", "e">>,
      <<"t", "h", "e", "y">>,
      <<"m", "y">>,
      <<"y", "o", "u", "r">>,
      <<"h", "i", "s">>,
      <<"h", "e", "r">>,
      <<"o", "u", "r">>,
      <<"t", "h", "e", "i", "r">>,
      <<"i", "t", "s">>,
      <<"w", "h", "o">>,
      <<"w", "h", "a", "t">>,
      <<"w", "h", "e", "n">>,
      <<"w", "h", "e", "r", "e">>,
      <<"w", "h", "y">>,
      <<"h", "o", "w">>,
      <<"w", "h", "i", "c", "h">>,
      <<"a", "s">>,
      <<"i", "f">>,
      <<"s", "o">>,
      <<"t", "h", "a", "n">>,
      <<"v", "e", "r", "y">>,
      <<"j", "u", "s", "t">>,
      <<"a", "b", "o", "u", "t">>,
      <<"i", "n", "t", "o">>,
      <<"t", "h", "r", "o", "u", "g", "h">> }

\* isKeyword as it would be with >= 3 for > 3
isKeyword_atLeast3(word) == Len(word) >= 3 /\ word \notin stopWords

isKeyword(word) == Len(word) > 3 /\ word \notin stopWords

extractKeywords(text) ==
    SelectSeq(splitWhitespace(replaceNonLetters(toLowerCase(text))), isKeyword)

-----------------------------------------------------------------------------
(* Similarity                                                              *)

\* keywords of `${post.title} ${post.content_preview}`, as the array
keywordsOf(post) == extractKeywords(joinWithSpace(post.title, post.content_preview))

\* jaccardScore = intersection / union
jaccardScore(keywords1, keywords2) ==
    LET intersection == Cardinality({k \in keywords1 : k \in keywords2})
        union == Cardinality(keywords1 \cup keywords2)
    IN  (intersection * ScoreUnit) \div union

authorBoost(p1, p2) == IF p1.user_id = p2.user_id THEN ScoreUnit \div 5 ELSE 0

\* recencyFactor as it would be without Math.abs around the difference
recencyFactor_signed(p1, p2) ==
    LET hoursDiff == p1.created_at - p2.created_at
    IN  Max(0, ScoreUnit - hoursDiff * (ScoreUnit \div (DaysPerYear * HoursPerDay)))

\* recencyFactor as it would be without the Math.max(0, ...) floor
recencyFactor_unclamped(p1, p2) ==
    LET hoursDiff == Abs(p1.created_at - p2.created_at)
    IN  ScoreUnit - hoursDiff * (ScoreUnit \div (DaysPerYear * HoursPerDay))

\* recencyFactor as it would be with a decay over one day
recencyFactor_overOneDay(p1, p2) ==
    LET hoursDiff == Abs(p1.created_at - p2.created_at)
    IN  Max(0, ScoreUnit - hoursDiff * (ScoreUnit \div HoursPerDay))

\* Math.max(0, 1 - daysDiff / 365) with daysDiff = |t1 - t2| / one day
recencyFactor(p1, p2) ==
    LET hoursDiff == Abs(p1.created_at - p2.created_at)
    IN  Max(0, ScoreUnit - hoursDiff * (ScoreUnit \div (DaysPerYear * HoursPerDay)))

\* calculateSimilarity as it would be without the line-33 identity test
calculateSimilarity_noIdentity(p1, p2) ==
    LET keywords1 == SetOf(keywordsOf(p1))
        keywords2 == SetOf(keywordsOf(p2))
    IN  IF keywords1 = {} \/ keywords2 = {} THEN 0
        ELSE (jaccardScore(keywords1, keywords2) * 3) \div 5
             + authorBoost(p1, p2)
             + recencyFactor(p1, p2) \div 5

\* calculateSimilarity as it would be with && for || in the line-38 test
calculateSimilarity_bothEmpty(p1, p2) ==
    IF p1.id = p2.id THEN 0
    ELSE LET keywords1 == SetOf(keywordsOf(p1))
             keywords2 == SetOf(keywordsOf(p2))
         IN  IF keywords1 = {} /\ keywords2 = {} THEN 0
             ELSE (jaccardScore(keywords1, keywords2) * 3) \div 5
                  + authorBoost(p1, p2)
                  + recencyFactor(p1, p2) \div 5

\* calculateSimilarity as it would be with the keyword arrays used
\* directly, without new Set(...) around extractKeywords
calculateSimilarity_arrays(p1, p2) ==
    IF p1.id = p2.id THEN 0
    ELSE LET words1 == keywordsOf(p1)
             words2 == keywordsOf(p2)
             inWords2(k) == k \in SetOf(words2)
             intersection == Len(SelectSeq(words1, inWords2))
             union == Cardinality(SetOf(words1 \o words2))
         IN  IF Len(words1) = 0 \/ Len(words2) = 0 THEN 0
             ELSE (((intersection * ScoreUnit) \div union) * 3) \div 5
                  + authorBoost(p1, p2)
                  + recencyFactor(p1, p2) \div 5

calculateSimilarity(p1, p2) ==
    IF p1.id = p2.id THEN 0
    ELSE LET keywords1 == SetOf(keywordsOf(p1))
             keywords2 == SetOf(keywordsOf(p2))
         IN  IF keywords1 = {} \/ keywords2 = {} THEN 0
             ELSE (jaccardScore(keywords1, keywords2) * 3) \div 5
                  + authorBoost(p1, p2)
                  + recencyFactor(p1, p2) \div 5

-----------------------------------------------------------------------------
(* Posts                                                                   *)

\* the absent reference post (null)
NoPost == [absent |-> TRUE]

Post(id, title, preview, user, created) ==
    [id |-> id, title |-> title, content_preview |-> preview,
     user_id |-> user, created_at |-> created]

\* 'Delhi Monsoon Diaries'
TitleDelhiMonsoonDiaries == <<"D", "e", "l", "h", "i", " ", "M", "o", "n",
    "s", "o", "o", "n", " ", "D", "i", "a", "r", "i", "e", "s">>
\* 'Monsoon Stories From Delhi'
TitleMonsoonStories == <<"M", "o", "n", "s", "o", "o", "n", " ", "S", "t",
    "o", "r", "i", "e", "s", " ", "F", "r", "o", "m", " ", "D", "e", "l",
    "h", "i">>
\* 'A Recipe for Biryani'
TitleRecipeBiryani == <<"A", " ", "R", "e", "c", "i", "p", "e", " ", "f",
    "o", "r", " ", "B", "i", "r", "y", "a", "n", "i">>
\* 'Diaries: delhi, DELHI monsoon'
TitleDelhiRepeated == <<"D", "i", "a", "r", "i", "e", "s", ":", " ", "d",
    "e", "l", "h", "i", ",", " ", "D", "E", "L", "H", "I", " ", "m", "o",
    "n", "s", "o", "o", "n">>
\* 'The Cat'
TitleTheCat == <<"T", "h", "e", " ", "C", "a", "t">>
\* 'Web3 in 2024!'
PreviewWeb3 == <<"W", "e", "b", "3", " ", "i", "n", " ", "2", "0", "2", "4",
    "!">>
\* ' monsoon\tdiaries\ndiaries '
PreviewMonsoonDiaries == <<" ", "m", "o", "n", "s", "o", "o", "n", "\t", "d",
    "i", "a", "r", "i", "e", "s", "\n", "d", "i", "a", "r", "i", "e", "s",
    " ">>

Empty == << >>

\* the three posts of the end-to-end scenario (day 0, day 2, day 1)
doc1 == Post("p1", TitleDelhiMonsoonDiaries, Empty, "A", 0)
doc2 == Post("p2", TitleMonsoonStories, Empty, "A", 2 * HoursPerDay)
doc3 == Post("p3", TitleRecipeBiryani, Empty, "B", 1 * HoursPerDay)
\* no keyword at all
doc4 == Post("p4", TitleTheCat, PreviewWeb3, "A", 0)
\* another post carrying the id of doc1, created 400 days after it
doc5 == Post("p1", TitleDelhiRepeated, PreviewMonsoonDiaries, "B", 400 * HoursPerDay)
\* the text, author and instant of doc2 under another id
doc6 == Post("p5", TitleMonsoonStories, Empty, "A", 2 * HoursPerDay)

\* posts the pages hand to useRecommendations
RecPosts == {doc1, doc2, doc3, doc4, doc5, doc6}

Corpora == UNION {[1..n -> RecPosts] : n \in 0..MaxPosts}

Limits == ((0 - MaxLimit)..MaxLimit) \cup {DefaultLimit}

\* posts calculateSimilarity is applied to
SimIds == {"p1", "p2"}
SimTitles == {TitleDelhiMonsoonDiaries, TitleDelhiRepeated, TitleRecipeBiryani,
              TitleTheCat}
SimPreviews == {Empty, PreviewWeb3, PreviewMonsoonDiaries}
SimUsers == {"A", "B"}
SimInstants == {0, 36, DaysPerYear * HoursPerDay - 1, DaysPerYear * HoursPerDay,
                400 * HoursPerDay}

SimPosts ==
    {Post(id, t, p, u, c) : id \in SimIds, t \in SimTitles, p \in SimPreviews,
                            u \in SimUsers, c \in SimInstants}

-----------------------------------------------------------------------------
(* Recommendations                                                         *)

\* candidates as it would be with the posts compared whole, not by id
candidates_wholePost(cur, posts) ==
    LET differs(post) == post # cur
    IN  SelectSeq(posts, differs)

\* the filter as it would be with a threshold on the score
candidates_related(cur, posts) ==
    LET related(post) == post.id # cur.id /\ calculateSimilarity(cur, post) > 0
    IN  SelectSeq(posts, related)

\* allPosts.filter((post) => post.id !== currentPost.id)
candidates(cur, posts) ==
    LET differs(post) == post.id # cur.id
    IN  SelectSeq(posts, differs)

\* .map((post) => ({ post, score: calculateSimilarity(currentPost, post) }))
scoreAll(cur, posts) ==
    [i \in 1..Len(posts) |->
        [post |-> posts[i], score |-> calculateSimilarity(cur, posts[i])]]

\* the comparator as it would be with its operands exchanged
compareScored_ascending(a, b) == a.score - b.score

\* the comparator (a, b) => b.score - a.score
compareScored(a, b) == b.score - a.score

\* insertScored as an unstable sort could do it: an item goes in front of
\* the items it ties with
insertScored_beforeTies(sorted, x) ==
    LET k == Cardinality({i \in 1..Len(sorted) : compareScored(sorted[i], x) < 0})
    IN  SubSeq(sorted, 1, k) \o <<x>> \o SubSeq(sorted, k + 1, Len(sorted))

\* Array.prototype.sort with compareScored: a stable sort, so an item goes
\* behind every item the comparator does not put after it.
insertScored(sorted, x) ==
    LET k == Cardinality({i \in 1..Len(sorted) : compareScored(sorted[i], x) <= 0})
    IN  SubSeq(sorted, 1, k) \o <<x>> \o SubSeq(sorted, k + 1, Len(sorted))

RECURSIVE sortScored(_)
sortScored(items) ==
    IF items = << >> THEN << >>
    ELSE insertScored(sortScored(SubSeq(items, 1, Len(items) - 1)),
                      items[Len(items)])

\* Array.prototype.slice(start, end): a negative index counts from the end
slice(array, start, end) ==
    LET len == Len(array)
        from == IF start < 0 THEN Max(len + start, 0) ELSE Min(start, len)
        to == IF end < 0 THEN Max(len + end, 0) ELSE Min(end, len)
    IN  SubSeq(array, from + 1, to)

\* useRecommendations as it would be if a missing reference fell back to
\* the head of the corpus
useRecommendations_fallback(cur, posts, lim) ==
    IF cur = NoPost THEN slice(posts, 0, lim)
    ELSE IF Len(posts) = 0 THEN << >>
    ELSE LET scored == sortScored(scoreAll(cur, candidates(cur, posts)))
             top == slice(scored, 0, lim)
         IN  [i \in 1..Len(top) |-> top[i].post]

useRecommendations(cur, posts, lim) ==
    IF cur = NoPost \/ Len(posts) = 0 THEN << >>
    ELSE LET scored == sortScored(scoreAll(cur, candidates(cur, posts)))
             top == slice(scored, 0, lim)
         IN  [i \in 1..Len(top) |-> top[i].post]

-----------------------------------------------------------------------------
(* The recommendation hook as a state machine                              *)

SimIdle ==
    /\ post1 = NoPost
    /\ post2 = NoPost
    /\ simScore = 0
    /\ simPc = "off"

TokIdle ==
    /\ tokText = << >>
    /\ keywords = << >>
    /\ tokPc = "off"

TrendIdle ==
    /\ trendPosts = << >>
    /\ trendLimit = 0
    /\ now = 0
    /\ trendingPosts = << >>
    /\ trendPc = "off"

RelIdle ==
    /\ item = NoPost
    /\ searchTerms = << >>
    /\ relevance = 0
    /\ relPc = "off"

SearchIdle ==
    /\ searchItems = << >>
    /\ searchQuery = << >>
    /\ filteredItems = << >>
    /\ hasResults = FALSE
    /\ isSearching = FALSE

\* the hooks that keep a value with useMemo
Hooks == {"useRecommendations", "useTrendingPosts", "useSearch"}

NoMemo == [absent |-> TRUE]

MemoIdle ==
    /\ memo = [h \in Hooks |-> NoMemo]
    /\ pending = {}

DetailIdle ==
    /\ routeId = "none"
    /\ detailPost = "none"
    /\ detailAllPosts = << >>
    /\ loading = FALSE
    /\ postFetches = << >>
    /\ allPostsFetches = << >>
    /\ rows = {}
    /\ navigations = 0

Init ==
    /\ currentPost \in RecPosts \cup {NoPost}
    /\ allPosts \in Corpora
    /\ limit \in Limits
    /\ recommendations = << >>
    /\ recPc = "ready"
    /\ SimIdle
    /\ TokIdle
    /\ TrendIdle
    /\ RelIdle
    /\ SearchIdle
    /\ MemoIdle
    /\ DetailIdle

\* the useMemo callback of useRecommendations runs
Recommend ==
    /\ recPc = "ready"
    /\ recommendations' = useRecommendations(currentPost, allPosts, limit)
    /\ recPc' = "done"
    /\ UNCHANGED <<currentPost, allPosts, limit>>
    /\ UNCHANGED <<simVars, tokVars, trendVars, relVars, searchVars,
                 memoVars, detailVars>>

Next == Recommend

Spec == Init /\ [][Next]_vars

-----------------------------------------------------------------------------
(* calculateSimilarity applied to a pair of posts                          *)

RecIdle ==
    /\ currentPost = NoPost
    /\ allPosts = << >>
    /\ limit = DefaultLimit
    /\ recommendations = << >>
    /\ recPc = "off"

InitSim ==
    /\ post1 \in SimPosts
    /\ post2 \in SimPosts
    /\ simScore = 0
    /\ simPc = "ready"
    /\ RecIdle
    /\ TokIdle
    /\ TrendIdle
    /\ RelIdle
    /\ SearchIdle
    /\ MemoIdle
    /\ DetailIdle

Similarity ==
    /\ simPc = "ready"
    /\ simScore' = calculateSimilarity(post1, post2)
    /\ simPc' = "done"
    /\ UNCHANGED <<post1, post2>>
    /\ UNCHANGED <<recVars, tokVars, trendVars, relVars, searchVars,
                 memoVars, detailVars>>

NextSim == Similarity

SpecSim == InitSim /\ [][NextSim]_vars

-----------------------------------------------------------------------------
(* Properties of useRecommendations, checked under Spec                    *)

\* the hook ran with a present reference
Recommended == recPc = "done" /\ currentPost # NoPost

\* similarity of a post to the reference
scoreOf(post) == calculateSimilarity(currentPost, post)

\* positions of the corpus whose post does not carry the reference id
CandidateIndices == {j \in 1..Len(allPosts) : allPosts[j].id # currentPost.id}

IsPermutation(s, t) ==
    /\ Len(s) = Len(t)
    /\ \E f \in [1..Len(s) -> 1..Len(t)] :
          /\ \A i, k \in 1..Len(s) : i # k => f[i] # f[k]
          /\ \A i \in 1..Len(s) : s[i] = t[f[i]]

\* C1: with a present reference, a non-empty corpus and a limit <= 0 (zero
\* or negative) the hook returns the empty sequence.
C1_NonPositiveLimitEmpty ==
    (Recommended /\ allPosts # << >> /\ limit <= 0) => recommendations = << >>

\* C2: the output is ordered by similarity to the reference, descending:
\* the returned posts sit at distinct candidate positions of the corpus,
\* scores never increase along the output, every candidate left out scores
\* no higher than every returned one, and returned posts with equal scores
\* keep the relative order of their corpus positions.
C2_OrderedBySimilarity ==
    Recommended =>
        LET n == Len(recommendations)
            score == [j \in 1..Len(allPosts) |-> scoreOf(allPosts[j])]
        IN  \E f \in [1..n -> CandidateIndices] :
                /\ \A i \in 1..n : allPosts[f[i]] = recommendations[i]
                /\ \A i, k \in 1..n : i # k => f[i] # f[k]
                /\ \A i \in 1..(n - 1) : score[f[i]] >= score[f[i + 1]]
                /\ \A j \in CandidateIndices \ {f[i] : i \in 1..n} :
                      \A i \in 1..n : score[j] <= score[f[i]]
                /\ \A i, k \in 1..n :
                      (i < k /\ score[f[i]] = score[f[k]]) => f[i] < f[k]

\* two different posts tie in the output behind which a lower-scored
\* candidate, first in the corpus, was left out
C2_Witness ==
    /\ Recommended
    /\ Len(recommendations) = 2
    /\ recommendations[1] # recommendations[2]
    /\ scoreOf(recommendations[1]) = scoreOf(recommendations[2])
    /\ Cardinality(CandidateIndices) = 3
    /\ scoreOf(allPosts[1]) < scoreOf(recommendations[2])

\* C3: no returned post has the id of the reference, also when the
\* reference id occurs two or more times in the corpus.
C3_ReferenceExcluded ==
    Recommended =>
        \A i \in 1..Len(recommendations) : recommendations[i].id # currentPost.id

\* the reference id occurs twice in the corpus, once on a post that is not
\* the reference itself, and something is returned
C3_Witness ==
    /\ Recommended
    /\ Cardinality({j \in 1..Len(allPosts) : allPosts[j].id = currentPost.id}) >= 2
    /\ \E j \in 1..Len(allPosts) :
          allPosts[j].id = currentPost.id /\ allPosts[j] # currentPost
    /\ recommendations # << >>

\* C4: with the reference absent or the corpus empty the hook returns the
\* empty sequence, for every limit.
C4_AbsentOrEmpty ==
    (recPc = "done" /\ (currentPost = NoPost \/ allPosts = << >>))
        => recommendations = << >>

\* the reference is absent while the corpus is full and the limit positive
C4_Witness ==
    /\ recPc = "done"
    /\ currentPost = NoPost
    /\ Len(allPosts) = MaxPosts
    /\ limit > 0
    /\ recommendations = << >>

\* C10: for the corpus doc1, doc2, doc3, in any order, Recommend(doc1,
\* corpus, 2) returns doc2 before doc3 and does not return doc1.
C10_EndToEnd ==
    (recPc = "done" /\ currentPost = doc1 /\ limit = 2
        /\ IsPermutation(allPosts, <<doc1, doc2, doc3>>))
        => recommendations = <<doc2, doc3>>

C10_Witness ==
    /\ recPc = "done"
    /\ currentPost = doc1
    /\ allPosts = <<doc1, doc2, doc3>>
    /\ limit = 2
    /\ recommendations = <<doc2, doc3>>

-----------------------------------------------------------------------------
(* Properties of calculateSimilarity, checked under SpecSim                *)

Scored == simPc = "done"

\* the keyword set K of title + " " + previewText
K(post) == SetOf(extractKeywords(joinWithSpace(post.title, post.content_preview)))

HoursPerYear == DaysPerYear * HoursPerDay

HoursApart == Abs(post1.created_at - post2.created_at)

\* C5: similarity is exactly 0 whenever the two ids are equal, whatever the
\* other fields are.
C5_SameIdZero == (Scored /\ post1.id = post2.id) => simScore = 0

\* two different posts share an id, keywords, the author and the instant
C5_Witness ==
    /\ Scored
    /\ post1.id = post2.id
    /\ post1 # post2
    /\ K(post1) \cap K(post2) # {}
    /\ post1.user_id = post2.user_id
    /\ post1.created_at = post2.created_at
    /\ simScore = 0

\* C6: for two posts with different ids, similarity(a, b) = similarity(b, a).
C6_Symmetric ==
    (Scored /\ post1.id # post2.id) => simScore = calculateSimilarity(post2, post1)

\* the first post is the newer one, and the keyword sets differ in size
C6_Witness ==
    /\ Scored
    /\ post1.id # post2.id
    /\ post1.created_at > post2.created_at
    /\ Cardinality(K(post1)) > Cardinality(K(post2))
    /\ K(post2) # {}
    /\ simScore > 0

\* C7: similarity is 0 whenever the keyword set of either post is empty,
\* also for two posts of one author created at the same instant.
C7_EmptyKeywordsZero ==
    (Scored /\ (K(post1) = {} \/ K(post2) = {})) => simScore = 0

\* exactly one keyword set is empty; ids differ, author and instant agree
C7_Witness ==
    /\ Scored
    /\ post1.id # post2.id
    /\ K(post1) # {}
    /\ K(post2) = {}
    /\ post1.user_id = post2.user_id
    /\ post1.created_at = post2.created_at
    /\ simScore = 0

\* C8: for different ids and two non-empty keyword sets,
\*   similarity = 0.6 * |K1 \cap K2| / |K1 \cup K2|
\*                + (0.2 if the authors agree) + 0.2 * max(0, 1 - days/365),
\* stated here multiplied by 5 * HoursPerYear * |K1 \cup K2|; and a post
\* whose text differs from that of post2 only in how often words occur
\* scores the same.
C8_Formula ==
    (Scored /\ post1.id # post2.id /\ K(post1) # {} /\ K(post2) # {}) =>
        LET inter == Cardinality(K(post1) \cap K(post2))
            union == Cardinality(K(post1) \cup K(post2))
            sameAuthor == IF post1.user_id = post2.user_id THEN 1 ELSE 0
            remaining == IF HoursApart < HoursPerYear
                         THEN HoursPerYear - HoursApart ELSE 0
        IN  /\ simScore * union =
                   (ScoreUnit \div (5 * HoursPerYear))
                   * (3 * HoursPerYear * inter
                      + HoursPerYear * union * sameAuthor
                      + union * remaining)
            /\ \A t \in SimTitles, p \in SimPreviews :
                  LET q == [post2 EXCEPT !.title = t, !.content_preview = p]
                  IN  K(q) = K(post2) => calculateSimilarity(post1, q) = simScore

\* post2 repeats a keyword; the sets overlap in part; same author; the
\* instants are apart by less than a year
C8_Witness ==
    /\ Scored
    /\ post1.id # post2.id
    /\ Len(keywordsOf(post2)) > Cardinality(K(post2))
    /\ K(post1) \cap K(post2) # {}
    /\ K(post1) # K(post2)
    /\ post1.user_id = post2.user_id
    /\ HoursApart > 0
    /\ HoursApart < HoursPerYear
    /\ simScore > 0

\* C9: the recency factor is max(0, 1 - daysDiff / 365): never negative, 0
\* for posts 365 or more days apart, 1 - daysDiff / 365 below that; and the
\* similarity of every pair lies in [0, 1.2].
C9_RecencyAndRange ==
    Scored =>
        /\ recencyFactor(post1, post2) >= 0
        /\ HoursApart >= HoursPerYear => recencyFactor(post1, post2) = 0
        /\ HoursApart < HoursPerYear =>
              recencyFactor(post1, post2)
                  = (ScoreUnit \div HoursPerYear) * (HoursPerYear - HoursApart)
        /\ simScore >= 0
        /\ simScore * 5 <= ScoreUnit * 6
        /\ (post1.id # post2.id /\ K(post1) # {} /\ K(post2) # {}
              /\ K(post1) \cap K(post2) = {} /\ post1.user_id # post2.user_id)
              => simScore * 5 = recencyFactor(post1, post2)

\* more than a year apart, scored with nothing but the recency term left
C9_Witness ==
    /\ Scored
    /\ HoursApart > HoursPerYear
    /\ post1.id # post2.id
    /\ K(post1) # {}
    /\ K(post2) # {}
    /\ K(post1) \cap K(post2) = {}
    /\ post1.user_id # post2.user_id
    /\ simScore = 0

-----------------------------------------------------------------------------
(* extractKeywords applied to a text                                       *)

MaxWords == 2

\* 'Web3'
WordWeb3 == <<"W", "e", "b", "3">>
\* 'Their'
WordTheir == <<"T", "h", "e", "i", "r">>
\* 'ABOUT'
WordAbout == <<"A", "B", "O", "U", "T">>
\* 'Delhi'
WordDelhi == <<"D", "e", "l", "h", "i">>
\* 'cat'
WordCat == <<"c", "a", "t">>
\* 'with'
WordWith == <<"w", "i", "t", "h">>
\* 'in'
WordIn == <<"i", "n">>
\* 'Monsoon!'
WordMonsoon == <<"M", "o", "n", "s", "o", "o", "n", "!">>

TokWords == {WordWeb3, WordTheir, WordAbout, WordDelhi, WordCat, WordWith,
             WordIn, WordMonsoon}

\* what stands between two words of a text: nothing, a blank, a hyphen
TokSeparators == {<< >>, <<" ">>, <<"-">>}

RECURSIVE TextsOf(_)
TextsOf(n) ==
    IF n = 0 THEN {<< >>}
    ELSE IF n = 1 THEN TokWords
    ELSE {t \o sep \o w : t \in TextsOf(n - 1), sep \in TokSeparators, w \in TokWords}

TokTexts == UNION {TextsOf(n) : n \in 0..MaxWords}

InitTok ==
    /\ tokText \in TokTexts
    /\ keywords = << >>
    /\ tokPc = "ready"
    /\ RecIdle
    /\ SimIdle
    /\ TrendIdle
    /\ RelIdle
    /\ SearchIdle
    /\ MemoIdle
    /\ DetailIdle

Tokenize ==
    /\ tokPc = "ready"
    /\ keywords' = extractKeywords(tokText)
    /\ tokPc' = "done"
    /\ UNCHANGED tokText
    /\ UNCHANGED <<recVars, simVars, trendVars, relVars, searchVars,
                 memoVars, detailVars>>

NextTok == Tokenize

SpecTok == InitTok /\ [][NextTok]_vars

-----------------------------------------------------------------------------
(* Properties of extractKeywords, checked under SpecTok                    *)

Tokenized == tokPc = "done"

AsciiLetters == LowerLetters \cup {Upper[i] : i \in 1..26}

\* text[i..j] is a maximal run of ASCII letters of text
IsLetterRun(i, j) ==
    /\ i <= j
    /\ \A k \in i..j : tokText[k] \in AsciiLetters
    /\ i = 1 \/ tokText[i - 1] \notin AsciiLetters
    /\ j = Len(tokText) \/ tokText[j + 1] \notin AsciiLetters

\* C11: every returned token has length >= 4, consists of the letters a-z
\* only and is no stop word, also when the word is capitalized in the
\* text; digits and punctuation separate words, so every token is a whole
\* run of letters of the text, lower-cased, and "web3" alone yields nothing;
\* the empty text yields no token.
C11_TokensAreKeywords ==
    Tokenized =>
        /\ \A n \in 1..Len(keywords) :
              /\ Len(keywords[n]) >= 4
              /\ \A k \in 1..Len(keywords[n]) : keywords[n][k] \in LowerLetters
              /\ keywords[n] \notin stopWords
              /\ \E i, j \in 1..Len(tokText) :
                    /\ IsLetterRun(i, j)
                    /\ keywords[n] = toLowerCase(SubSeq(tokText, i, j))
        /\ tokText = << >> => keywords = << >>
        /\ tokText = WordWeb3 => keywords = << >>

\* a capitalized stop word of more than three letters was dropped and the
\* word after it kept, lower-cased
C11_Witness ==
    /\ Tokenized
    /\ \E w \in {WordTheir, WordAbout} : tokText = w \o <<" ">> \o WordDelhi
    /\ keywords = <<toLowerCase(WordDelhi)>>

-----------------------------------------------------------------------------
(* Trending                                                                *)

TrendDefaultLimit == 5
DecayHours == 168

\* Math.exp(x) is the double 0 for every x below about -745.13
ExpUnderflow == 746

\* the age, in hours, from which on Math.exp(-ageHours / 168) is 0
ZeroAgeHours == ExpUnderflow * DecayHours

\* Math.exp(-ageHours / 168).  The sort reads only the sign of the
\* difference of two scores, so a score is held as its rank: 0 for the
\* double 0, and one more for every hour less of age.  Ages between 708 and
\* 746 times DecayHours, where the double is subnormal, are kept out of
\* the inputs.
recencyScore(ageHours) ==
    IF ageHours >= ZeroAgeHours THEN 0 ELSE ZeroAgeHours - ageHours

\* posts.map((post) => ({ post, score: recencyScore }))
scoreByRecency(corpus, clock) ==
    [i \in 1..Len(corpus) |->
        [post |-> corpus[i], score |-> recencyScore(clock - corpus[i].created_at)]]

\* useTrendingPosts as it would be without .slice(0, limit)
useTrendingPosts_noSlice(corpus, lim, clock) ==
    LET scored == sortScored(scoreByRecency(corpus, clock))
    IN  [i \in 1..Len(scored) |-> scored[i].post]

\* useTrendingPosts as it would be without the last .map((item) => item.post)
useTrendingPosts_scored(corpus, lim, clock) ==
    slice(sortScored(scoreByRecency(corpus, clock)), 0, lim)

useTrendingPosts(corpus, lim, clock) ==
    LET scored == sortScored(scoreByRecency(corpus, clock))
        top == slice(scored, 0, lim)
    IN  [i \in 1..Len(top) |-> top[i].post]

\* posts the index page hands to useTrendingPosts: two an hour apart, a
\* third created with the second, a fourth 10000 hours later
trend1 == Post("t1", TitleTheCat, Empty, "A", 0)
trend2 == Post("t2", TitleTheCat, Empty, "A", 1)
trend3 == Post("t3", TitleTheCat, Empty, "B", 1)
trend4 == Post("t4", TitleTheCat, Empty, "B", 10000)

TrendPosts == {trend1, trend2, trend3, trend4}

TrendCorpora == UNION {[1..n -> TrendPosts] : n \in 0..MaxPosts}

TrendLimits == ((0 - MaxLimit)..MaxLimit) \cup {TrendDefaultLimit}

\* the clock: an hour before the newest post, a week after it, and more
\* than ZeroAgeHours after the three oldest and after all of them
TrendClocks == {10000 - 1, 10000 + DecayHours, ZeroAgeHours + 100,
                ZeroAgeHours + 10000 + 100}

InitTrend ==
    /\ trendPosts \in TrendCorpora
    /\ trendLimit \in TrendLimits
    /\ now \in TrendClocks
    /\ trendingPosts = << >>
    /\ trendPc = "ready"
    /\ RecIdle
    /\ SimIdle
    /\ TokIdle
    /\ RelIdle
    /\ SearchIdle
    /\ MemoIdle
    /\ DetailIdle

\* the useMemo callback of useTrendingPosts runs
Trending ==
    /\ trendPc = "ready"
    /\ trendingPosts' = useTrendingPosts(trendPosts, trendLimit, now)
    /\ trendPc' = "done"
    /\ UNCHANGED <<trendPosts, trendLimit, now>>
    /\ UNCHANGED <<recVars, simVars, tokVars, relVars, searchVars,
                 memoVars, detailVars>>

NextTrend == Trending

SpecTrend == InitTrend /\ [][NextTrend]_vars

-----------------------------------------------------------------------------
(* Properties of useTrendingPosts, checked under SpecTrend                 *)

Trended == trendPc = "done"

\* the corpus positions, newest first, equal instants in corpus order
RECURSIVE NewestFirst(_)
NewestFirst(corpus) ==
    IF corpus = << >> THEN << >>
    ELSE LET rest == NewestFirst(SubSeq(corpus, 1, Len(corpus) - 1))
             x == corpus[Len(corpus)]
             k == Cardinality({i \in 1..Len(rest) : rest[i].created_at >= x.created_at})
         IN  SubSeq(rest, 1, k) \o <<x>> \o SubSeq(rest, k + 1, Len(rest))

\* C12: of any two posts of a call the one created later gets the strictly
\* higher score, and the result is the corpus newest first, posts of equal
\* instants in corpus order, cut to the limit, whatever the clock shows.
C12_NewestFirst ==
    Trended =>
        /\ \A i, j \in 1..Len(trendPosts) :
              trendPosts[i].created_at > trendPosts[j].created_at
                  => recencyScore(now - trendPosts[i].created_at)
                         > recencyScore(now - trendPosts[j].created_at)
        /\ trendingPosts = slice(NewestFirst(trendPosts), 0, trendLimit)

\* C13: for a limit >= 0 the hook returns exactly min(limit, |corpus|)
\* posts, so never more than limit; for a limit < 0 it returns
\* max(|corpus| + limit, 0) posts.
C13_LengthByLimit ==
    Trended =>
        /\ trendLimit >= 0 =>
              /\ Len(trendingPosts) = Min(trendLimit, Len(trendPosts))
              /\ Len(trendingPosts) <= trendLimit
        /\ trendLimit < 0 =>
              Len(trendingPosts) = Max(Len(trendPosts) + trendLimit, 0)

\* C13 as claimed: never more than limit posts, for every integer limit,
\* and exactly min(limit, |corpus|) for a limit >= 0.
C13_AtMostLimit ==
    Trended =>
        /\ Len(trendingPosts) <= trendLimit
        /\ trendLimit >= 0 => Len(trendingPosts) = Min(trendLimit, Len(trendPosts))

\* a corpus longer than a positive limit was cut to the limit
C13_Witness ==
    /\ Trended
    /\ trendLimit > 0
    /\ Len(trendPosts) > trendLimit
    /\ Len(trendingPosts) = trendLimit

-----------------------------------------------------------------------------
(* Strings and regular expressions of the relevance score                  *)

\* String.prototype.startsWith
startsWith(s, t) == Len(t) <= Len(s) /\ SubSeq(s, 1, Len(t)) = t

\* String.prototype.includes
includes(s, t) ==
    \E i \in 1..(Len(s) - Len(t) + 1) : SubSeq(s, i, i + Len(t) - 1) = t

\* the class [.*+?^${}()|[\]\\] of escapeRegex
RegexSpecials == {".", "*", "+", "?", "^", "$", "{", "}", "(", ")", "|", "[",
                  "]", "\\"}

\* escapeRegex as it would be with the dot missing from the class
RECURSIVE escapeRegex_noDot(_)
escapeRegex_noDot(string) ==
    IF string = << >> THEN << >>
    ELSE (IF string[1] \in RegexSpecials \ {"."}
          THEN <<"\\", string[1]>> ELSE <<string[1]>>)
         \o escapeRegex_noDot(SubSeq(string, 2, Len(string)))

\* string.replace(/[.*+?^${}()|[\]\\]/g, "\\$&")
RECURSIVE escapeRegex(_)
escapeRegex(string) ==
    IF string = << >> THEN << >>
    ELSE (IF string[1] \in RegexSpecials
          THEN <<"\\", string[1]>> ELSE <<string[1]>>)
         \o escapeRegex(SubSeq(string, 2, Len(string)))

\* `\\b${source}\\b`
wordBounded(source) == <<"\\", "b">> \o source \o <<"\\", "b">>

\* new RegExp(source): the atoms of the pattern.  \b is the word-boundary
\* assertion, a backslash before any other character makes that character
\* a literal, an unescaped dot matches any character but a line break, and
\* every other character is a literal.  (Sources built by escapeRegex hold
\* no other unescaped special character.)
RECURSIVE compileRegex(_)
compileRegex(source) ==
    IF source = << >> THEN << >>
    ELSE IF source[1] = "\\" /\ Len(source) >= 2
         THEN <<IF source[2] = "b"
                THEN [kind |-> "boundary", ch |-> ""]
                ELSE [kind |-> "char", ch |-> source[2]]>>
              \o compileRegex(SubSeq(source, 3, Len(source)))
         ELSE <<IF source[1] = "."
                THEN [kind |-> "any", ch |-> ""]
                ELSE [kind |-> "char", ch |-> source[1]]>>
              \o compileRegex(SubSeq(source, 2, Len(source)))

Digits == {"0", "1", "2", "3", "4", "5", "6", "7", "8", "9"}

\* the class \w
WordChars == LowerLetters \cup {Upper[i] : i \in 1..26} \cup Digits \cup {"_"}

\* \b at offset pos of s: exactly one of the characters before and after
\* the offset is a word character
atWordBoundary(s, pos) ==
    (pos >= 1 /\ s[pos] \in WordChars) # (pos < Len(s) /\ s[pos + 1] \in WordChars)

\* the offset behind the match of atoms k.. that starts at offset pos of s,
\* or -1 when there is none
RECURSIVE matchAtoms(_, _, _, _)
matchAtoms(atoms, k, s, pos) ==
    IF k > Len(atoms) THEN pos
    ELSE IF atoms[k].kind = "boundary"
         THEN IF atWordBoundary(s, pos) THEN matchAtoms(atoms, k + 1, s, pos) ELSE -1
    ELSE IF pos >= Len(s) THEN -1
    ELSE IF atoms[k].kind = "any"
         THEN IF s[pos + 1] # "\n" THEN matchAtoms(atoms, k + 1, s, pos + 1) ELSE -1
    ELSE IF s[pos + 1] = atoms[k].ch THEN matchAtoms(atoms, k + 1, s, pos + 1)
    ELSE -1

\* RegExp.prototype.test
regexTest(source, s) ==
    LET atoms == compileRegex(source)
    IN  \E pos \in 0..Len(s) : matchAtoms(atoms, 1, s, pos) # -1

\* (s.match(new RegExp(source, "g")) || []).length: the matches are taken
\* from left to right, each search starting behind the match before it
RECURSIVE countMatchesFrom(_, _, _)
countMatchesFrom(atoms, s, from) ==
    LET starts == {pos \in from..Len(s) : matchAtoms(atoms, 1, s, pos) # -1}
    IN  IF starts = {} THEN 0
        ELSE LET first == CHOOSE pos \in starts : \A q \in starts : pos <= q
                 end == matchAtoms(atoms, 1, s, first)
             IN  1 + countMatchesFrom(atoms, s, IF end = first THEN first + 1 ELSE end)

countMatches(source, s) == countMatchesFrom(compileRegex(source), s, 0)

-----------------------------------------------------------------------------
(* Relevance                                                               *)

\* a SearchableItem; content_full is optional
Item(id, title, preview) ==
    [id |-> id, title |-> title, content_preview |-> preview]

ItemWithFull(id, title, preview, full) ==
    [id |-> id, title |-> title, content_preview |-> preview, content_full |-> full]

\* item.content_full?.toLowerCase() || ""
fullContentOf(it) ==
    IF "content_full" \in DOMAIN it THEN toLowerCase(it.content_full) ELSE << >>

\* the title chain as it would be with four separate ifs
titleScore_noElse(title, term) ==
    (IF title = term THEN 100 ELSE 0)
    + (IF startsWith(title, term) THEN 50 ELSE 0)
    + (IF regexTest(wordBounded(escapeRegex(term)), title) THEN 30 ELSE 0)
    + (IF includes(title, term) THEN 15 ELSE 0)

\* lines 19-28: the if / else-if chain over the title
titleScore(title, term) ==
    IF title = term THEN 100
    ELSE IF startsWith(title, term) THEN 50
    ELSE IF regexTest(wordBounded(escapeRegex(term)), title) THEN 30
    ELSE IF includes(title, term) THEN 15
    ELSE 0

\* previewScore without the substring tier
previewScore_noSubstring(preview, term) ==
    IF regexTest(wordBounded(escapeRegex(term)), preview) THEN 10 ELSE 0

\* lines 31-32
previewScore(preview, term) ==
    IF regexTest(wordBounded(escapeRegex(term)), preview) THEN 10
    ELSE IF includes(preview, term) THEN 5
    ELSE 0

\* lines 35-36
fullContentScore(fullContent, term) ==
    IF regexTest(wordBounded(escapeRegex(term)), fullContent) THEN 3
    ELSE IF includes(fullContent, term) THEN 1
    ELSE 0

\* lines 39-41
frequencyBonus(title, preview, term) ==
    LET titleFreq == countMatches(escapeRegex(term), title)
        contentFreq == countMatches(escapeRegex(term), preview)
    IN  titleFreq * 5 + contentFreq * 2

\* the body of the forEach as it would be with the preview and full-content
\* tests chained to the title chain by else
termScore_chained(title, preview, fullContent, term) ==
    (IF titleScore(title, term) > 0 THEN titleScore(title, term)
     ELSE IF previewScore(preview, term) > 0 THEN previewScore(preview, term)
     ELSE fullContentScore(fullContent, term))
    + frequencyBonus(title, preview, term)

\* what one pass of the forEach adds to score
termScore(title, preview, fullContent, term) ==
    titleScore(title, term)
    + previewScore(preview, term)
    + fullContentScore(fullContent, term)
    + frequencyBonus(title, preview, term)

\* let score = 0; searchTerms.forEach(...), from term k on
RECURSIVE relevanceFrom(_, _, _, _, _, _)
relevanceFrom(title, preview, fullContent, terms, k, score) ==
    IF k > Len(terms) THEN score
    ELSE relevanceFrom(title, preview, fullContent, terms, k + 1,
                       score + termScore(title, preview, fullContent, terms[k]))

\* calculateRelevance as it would be with score = for score +=
calculateRelevance_lastTerm(it, terms) ==
    IF terms = << >> THEN 0
    ELSE termScore(toLowerCase(it.title), toLowerCase(it.content_preview),
                   fullContentOf(it), terms[Len(terms)])

calculateRelevance(it, terms) ==
    relevanceFrom(toLowerCase(it.title), toLowerCase(it.content_preview),
                  fullContentOf(it), terms, 1, 0)

-----------------------------------------------------------------------------
(* calculateRelevance applied to an item and a sequence of terms           *)

MaxTerms == 2

\* 'hello'
TitleHello == <<"h", "e", "l", "l", "o">>
\* 'Hello World'
TitleHelloWorld == <<"H", "e", "l", "l", "o", " ", "W", "o", "r", "l", "d">>
\* 'Say hello'
TitleSayHello == <<"S", "a", "y", " ", "h", "e", "l", "l", "o">>
\* 'Othello'
TitleOthello == <<"O", "t", "h", "e", "l", "l", "o">>
\* 'say hello3'
TitleHello3 == <<"s", "a", "y", " ", "h", "e", "l", "l", "o", "3">>
\* 'Learn C++ now'
TitleCpp == <<"L", "e", "a", "r", "n", " ", "C", "+", "+", " ", "n", "o",
    "w">>
\* 'aaa abc a.c'
TitleDots == <<"a", "a", "a", " ", "a", "b", "c", " ", "a", ".", "c">>

TitleWorldNews == <<"W", "o", "r", "l", "d", " ", "n", "e", "w", "s">>
\* 'Hello, hello!'
PreviewHelloHello == <<"H", "e", "l", "l", "o", ",", " ", "h", "e", "l", "l",
    "o", "!">>
\* 'othello_hello'
PreviewOthelloHello == <<"o", "t", "h", "e", "l", "l", "o", "_", "h", "e",
    "l", "l", "o">>
\* 'I like c++'
PreviewCpp == <<"I", " ", "l", "i", "k", "e", " ", "c", "+", "+">>
\* 'hello'
FullHello == <<"h", "e", "l", "l", "o">>
\* 'othello c++x'
FullOthelloCpp == <<"o", "t", "h", "e", "l", "l", "o", " ", "c", "+", "+",
    "x">>
\* 'hello'
TermHello == <<"h", "e", "l", "l", "o">>
\* 'c++'
TermCpp == <<"c", "+", "+">>
\* 'a.c'
TermDots == <<"a", ".", "c">>
\* 'world'
TermWorld == <<"w", "o", "r", "l", "d">>
\* 'zzz'
TermZzz == <<"z", "z", "z">>
\* 'aa'
TermAa == <<"a", "a">>

RelTitles == {Empty, TitleHello, TitleHelloWorld, TitleSayHello, TitleOthello,
              TitleHello3, TitleCpp, TitleDots}
RelPreviews == {Empty, PreviewHelloHello, PreviewOthelloHello, PreviewCpp}
RelFulls == {Empty, FullHello, FullOthelloCpp}

RelItems ==
    {Item("s1", t, p) : t \in RelTitles, p \in RelPreviews}
    \cup {ItemWithFull("s1", t, p, f) : t \in RelTitles, p \in RelPreviews,
                                        f \in RelFulls}

\* lower-cased, non-empty terms
RelTerms == {TermHello, TermCpp, TermDots, TermWorld, TermZzz, TermAa}

RelTermSeqs == UNION {[1..n -> RelTerms] : n \in 0..MaxTerms}

InitRel ==
    /\ item \in RelItems
    /\ searchTerms \in RelTermSeqs
    /\ relevance = 0
    /\ relPc = "ready"
    /\ RecIdle
    /\ SimIdle
    /\ TokIdle
    /\ TrendIdle
    /\ SearchIdle
    /\ MemoIdle
    /\ DetailIdle

CalculateRelevance ==
    /\ relPc = "ready"
    /\ relevance' = calculateRelevance(item, searchTerms)
    /\ relPc' = "done"
    /\ UNCHANGED <<item, searchTerms>>
    /\ UNCHANGED <<recVars, simVars, tokVars, trendVars, searchVars,
                 memoVars, detailVars>>

NextRel == CalculateRelevance

SpecRel == InitRel /\ [][NextRel]_vars

-----------------------------------------------------------------------------
(* useSearch                                                               *)

\* String.prototype.trim
RECURSIVE trimStart(_)
trimStart(s) ==
    IF s # << >> /\ s[1] \in Whitespace THEN trimStart(Tail(s)) ELSE s

RECURSIVE trimEnd(_)
trimEnd(s) ==
    IF s # << >> /\ s[Len(s)] \in Whitespace
    THEN trimEnd(SubSeq(s, 1, Len(s) - 1))
    ELSE s

trim(s) == trimEnd(trimStart(s))

\* searchQuery.toLowerCase().split(/\s+/).filter((term) => term.length > 0)
termsOf(query) ==
    SelectSeq(splitWhitespace(toLowerCase(query)), LAMBDA term : Len(term) > 0)

\* the filter predicate with every in place of some
matchesSome_every(it, terms) ==
    LET searchableText == toLowerCase(joinWithSpace(it.title, it.content_preview))
    IN  \A k \in 1..Len(terms) : includes(searchableText, terms[k])

\* searchTerms.some((term) => searchableText.includes(term))
matchesSome(it, terms) ==
    LET searchableText == toLowerCase(joinWithSpace(it.title, it.content_preview))
    IN  \E k \in 1..Len(terms) : includes(searchableText, terms[k])

\* items.filter(...)
matchedItems(its, terms) == SelectSeq(its, LAMBDA it : matchesSome(it, terms))

\* the comparator (a, b) => scoreB - scoreA
compareRelevance(a, b, terms) ==
    calculateRelevance(b, terms) - calculateRelevance(a, terms)

\* insertRanked as an unstable sort could do it: an item goes in front of
\* the items it ties with
insertRanked_beforeTies(sorted, x, terms) ==
    LET k == Cardinality({i \in 1..Len(sorted) :
                             compareRelevance(sorted[i], x, terms) < 0})
    IN  SubSeq(sorted, 1, k) \o <<x>> \o SubSeq(sorted, k + 1, Len(sorted))

\* Array.prototype.sort with compareRelevance: a stable sort, so an item
\* goes behind every item the comparator does not put after it.
insertRanked(sorted, x, terms) ==
    LET k == Cardinality({i \in 1..Len(sorted) :
                             compareRelevance(sorted[i], x, terms) <= 0})
    IN  SubSeq(sorted, 1, k) \o <<x>> \o SubSeq(sorted, k + 1, Len(sorted))

RECURSIVE sortByRelevance(_, _)
sortByRelevance(its, terms) ==
    IF its = << >> THEN << >>
    ELSE insertRanked(sortByRelevance(SubSeq(its, 1, Len(its) - 1), terms),
                      its[Len(its)], terms)

\* the memo without its two early returns
filteredAndRankedItems_noGuard(its, query) ==
    sortByRelevance(matchedItems(its, termsOf(query)), termsOf(query))

\* the memo of useSearch
filteredAndRankedItems(its, query) ==
    IF trim(query) = << >> THEN its
    ELSE LET terms == termsOf(query)
         IN  IF Len(terms) = 0 THEN its
             ELSE sortByRelevance(matchedItems(its, terms), terms)

-----------------------------------------------------------------------------
(* useSearch as a state machine: the hook is mounted over a corpus with   *)
(* the query "", and every setSearchQuery renders it again.               *)

MaxItems == 3

QueryBlank == <<" ">>

QueryWhitespace == <<" ", "\t", "\n">>

QueryHello == <<"h", "e", "l", "l", "o">>

QueryHelloWorld == <<"H", "E", "L", "L", "O", " ", " ", "W", "o", "r", "l",
    "d">>

QueryCpp == <<" ", "c", "+", "+", " ">>

QueryZzz == <<"z", "z", "z">>

QueryZzzHello == <<"z", "z", "z", "\t", "h", "e", "l", "l", "o">>

QueryDots == <<"a", ".", "c">>

QueryHelloWorldHello ==
    <<"h", "e", "l", "l", "o", " ", "w", "o", "r", "l", "d", " ", "h", "e", "l", "l", "o">>

SearchQueries ==
    {Empty, QueryBlank, QueryWhitespace, QueryHello, QueryHelloWorld, QueryCpp,
     QueryZzz, QueryZzzHello, QueryDots, QueryHelloWorldHello}

search1 == Item("s1", TitleOthello, PreviewHelloHello)
search2 == Item("s2", TitleHelloWorld, Empty)
search3 == ItemWithFull("s3", TitleCpp, PreviewCpp, FullOthelloCpp)
\* "hello" in content_full only
search4 == ItemWithFull("s4", TitleDots, Empty, FullHello)
search5 == Item("s5", TitleHello, Empty)
\* title and preview of search2 under another id
search6 == Item("s6", TitleHelloWorld, Empty)

\* "world" in the title only, "c++" in the preview only
search7 == Item("s7", TitleWorldNews, PreviewCpp)

SearchPool == {search1, search2, search3, search4, search5, search6, search7}

\* the corpora: up to MaxItems different items in any order
SearchCorpora ==
    UNION {{c \in [1..n -> SearchPool] :
               \A i, j \in 1..n : c[i] = c[j] => i = j} : n \in 0..MaxItems}

\* Rendered with hasResults read off the corpus, not off the result
Rendered_hasItems(its, query, filtered, has, searching) ==
    /\ filtered = filteredAndRankedItems(its, query)
    /\ has = (Len(its) > 0)
    /\ searching = (Len(trim(query)) > 0)

\* lines 82-88: what one render returns
Rendered(its, query, filtered, has, searching) ==
    /\ filtered = filteredAndRankedItems(its, query)
    /\ has = (Len(filteredAndRankedItems(its, query)) > 0)
    /\ searching = (Len(trim(query)) > 0)

InitSearch ==
    /\ searchItems \in SearchCorpora
    /\ searchQuery = Empty
    /\ Rendered(searchItems, searchQuery, filteredItems, hasResults, isSearching)
    /\ RecIdle
    /\ SimIdle
    /\ TokIdle
    /\ TrendIdle
    /\ RelIdle
    /\ MemoIdle
    /\ DetailIdle

SetSearchQuery(query) ==
    /\ query # searchQuery
    /\ searchQuery' = query
    /\ Rendered(searchItems, query, filteredItems', hasResults', isSearching')
    /\ UNCHANGED searchItems
    /\ UNCHANGED <<recVars, simVars, tokVars, trendVars, relVars,
                 memoVars, detailVars>>

NextSearch == \E query \in SearchQueries : SetSearchQuery(query)

SpecSearch == InitSearch /\ [][NextSearch]_vars

-----------------------------------------------------------------------------
(* Properties of calculateRelevance, checked under SpecRel                 *)

Relevant == relPc = "done"

lowerTitle == toLowerCase(item.title)
lowerPreview == toLowerCase(item.content_preview)
lowerFull == IF "content_full" \in DOMAIN item THEN toLowerCase(item.content_full) ELSE << >>

\* the positions at which t occurs in s as a literal substring
Occurrences(s, t) ==
    {i \in 1..(Len(s) - Len(t) + 1) : \A k \in 1..Len(t) : s[i + k - 1] = t[k]}

Contains(s, t) == Occurrences(s, t) # {}

IsPrefix(s, t) == 1 \in Occurrences(s, t)

\* the number of non-overlapping occurrences of t in s from position from on
RECURSIVE CountFrom(_, _, _)
CountFrom(s, t, from) ==
    LET later == {i \in Occurrences(s, t) : i >= from}
    IN  IF later = {} THEN 0
        ELSE LET first == CHOOSE i \in later : \A q \in later : i <= q
             IN  1 + CountFrom(s, t, first + Len(t))

Count(s, t) == CountFrom(s, t, 1)

\* whole word as the expression \bterm\b has it: at each end of an
\* occurrence exactly one of the two characters that meet there is a word
\* character (a letter, a digit or the underscore)
WordBounded(s, t) ==
    \E i \in Occurrences(s, t) :
        LET j == i + Len(t) - 1
        IN  /\ (i > 1 /\ s[i - 1] \in WordChars) # (t[1] \in WordChars)
            /\ (t[Len(t)] \in WordChars) # (j < Len(s) /\ s[j + 1] \in WordChars)

\* whole word as the design notes have it: the characters before and after
\* an occurrence, where present, are no ASCII letters
LetterBounded(s, t) ==
    \E i \in Occurrences(s, t) :
        LET j == i + Len(t) - 1
        IN  /\ i = 1 \/ s[i - 1] \notin AsciiLetters
            /\ j = Len(s) \/ s[j + 1] \notin AsciiLetters

\* the score of one term, with WholeWord deciding the whole-word tiers
ExpectedTitle(t, WholeWord(_, _)) ==
    IF lowerTitle = t THEN 100
    ELSE IF IsPrefix(lowerTitle, t) THEN 50
    ELSE IF WholeWord(lowerTitle, t) THEN 30
    ELSE IF Contains(lowerTitle, t) THEN 15
    ELSE 0

ExpectedPreview(t, WholeWord(_, _)) ==
    IF WholeWord(lowerPreview, t) THEN 10
    ELSE IF Contains(lowerPreview, t) THEN 5
    ELSE 0

ExpectedFull(t, WholeWord(_, _)) ==
    IF WholeWord(lowerFull, t) THEN 3
    ELSE IF Contains(lowerFull, t) THEN 1
    ELSE 0

ExpectedFrequency(t) == 5 * Count(lowerTitle, t) + 2 * Count(lowerPreview, t)

OccursNowhere(t) ==
    ~Contains(lowerTitle, t) /\ ~Contains(lowerPreview, t) /\ ~Contains(lowerFull, t)

\* C14: per term at most one title tier contributes, the highest that
\* applies of exact (+100), prefix (+50), whole word (+30), substring
\* (+15); seen on items whose preview and full text are empty, where the
\* score is that tier plus 5 per occurrence in the title.  The title
\* "hello" scores 105 for the term "hello".
C14_OneTitleTier ==
    (Relevant /\ Len(searchTerms) = 1 /\ lowerPreview = << >> /\ lowerFull = << >>)
        => /\ relevance = ExpectedTitle(searchTerms[1], WordBounded)
                          + 5 * Count(lowerTitle, searchTerms[1])
           /\ (item.title = TitleHello /\ searchTerms[1] = TermHello)
                 => relevance = 105

\* the title equals the term, so every tier applies, and scores 105
C14_Witness ==
    /\ Relevant
    /\ item = Item("s1", TitleHello, Empty)
    /\ searchTerms = <<TermHello>>
    /\ relevance = 105

\* C15: a match is a whole-word match (title +30, preview +10, full text
\* +3) exactly if the characters before and after the matched span, where
\* present, are no ASCII letters.
C15_LetterBoundedWholeWord ==
    (Relevant /\ Len(searchTerms) = 1)
        => relevance = ExpectedTitle(searchTerms[1], LetterBounded)
                       + ExpectedPreview(searchTerms[1], LetterBounded)
                       + ExpectedFull(searchTerms[1], LetterBounded)
                       + ExpectedFrequency(searchTerms[1])

\* C16: the score of a term is its three tiers plus the frequency bonus
\* 5 * (non-overlapping literal occurrences in the lower-cased title)
\* + 2 * (the same in the lower-cased preview); a term with regular
\* expression metacharacters is matched literally, so it scores 0 where it
\* does not occur literally.
C16_LiteralFrequency ==
    (Relevant /\ Len(searchTerms) = 1)
        => /\ relevance = ExpectedTitle(searchTerms[1], WordBounded)
                          + ExpectedPreview(searchTerms[1], WordBounded)
                          + ExpectedFull(searchTerms[1], WordBounded)
                          + ExpectedFrequency(searchTerms[1])
           /\ OccursNowhere(searchTerms[1]) => relevance = 0

\* the term "a.c" on a title that holds "a.c" once, and "abc" too
C16_Witness ==
    /\ Relevant
    /\ item.title = TitleDots
    /\ searchTerms = <<TermDots>>
    /\ Count(lowerTitle, TermDots) = 1
    /\ relevance >= 5

RECURSIVE SumOver(_, _)
SumOver(f, n) == IF n = 0 THEN 0 ELSE f[n] + SumOver(f, n - 1)

\* C17: what the preview and the full text add does not depend on the title
\* tier: against the same item with an empty preview the score is higher by
\* +10 (whole word) or +5 (substring) or 0 per term plus the preview's
\* frequency bonus, against the same item without full text by +3 or +1 or
\* 0 per term; and an item without fullText scores as with an empty one.
C17_PreviewAndFullIndependent ==
    Relevant =>
        LET n == Len(searchTerms)
            bare == Item(item.id, item.title, item.content_preview)
            previewPart == [k \in 1..n |->
                               ExpectedPreview(searchTerms[k], WordBounded)
                               + 2 * Count(lowerPreview, searchTerms[k])]
            fullPart == [k \in 1..n |-> ExpectedFull(searchTerms[k], WordBounded)]
        IN  /\ relevance = calculateRelevance([item EXCEPT !.content_preview = << >>],
                                              searchTerms)
                           + SumOver(previewPart, n)
            /\ relevance = calculateRelevance(bare, searchTerms) + SumOver(fullPart, n)
            /\ calculateRelevance(bare, searchTerms)
                  = calculateRelevance(ItemWithFull(item.id, item.title,
                                                    item.content_preview, << >>),
                                       searchTerms)

\* the title tier is the highest one, the preview holds the term as a
\* substring only and the full text as a whole word
C17_Witness ==
    /\ Relevant
    /\ item = ItemWithFull("s1", TitleHello, PreviewOthelloHello, FullHello)
    /\ searchTerms = <<TermHello>>
    /\ relevance = 105 + 5 + 2 * 2 + 3

Reverse(seq) == [k \in 1..Len(seq) |-> seq[Len(seq) + 1 - k]]

\* C18: the score is the sum of what each term adds: for every way to cut
\* the terms in two the score is the sum of the scores of the two parts,
\* the order of the terms does not matter, the score is never negative, and
\* a term that occurs in none of title, preview and full text adds 0.
C18_Additive ==
    Relevant =>
        LET n == Len(searchTerms)
        IN  /\ \A k \in 0..n :
                  relevance = calculateRelevance(item, SubSeq(searchTerms, 1, k))
                              + calculateRelevance(item, SubSeq(searchTerms, k + 1, n))
            /\ relevance = calculateRelevance(item, Reverse(searchTerms))
            /\ relevance >= 0
            /\ \A k \in 1..n :
                  OccursNowhere(searchTerms[k])
                      => relevance = calculateRelevance(item,
                                        SubSeq(searchTerms, 1, k - 1)
                                        \o SubSeq(searchTerms, k + 1, n))

\* two different terms, each adding to the score
C18_Witness ==
    /\ Relevant
    /\ Len(searchTerms) = 2
    /\ searchTerms[1] # searchTerms[2]
    /\ calculateRelevance(item, <<searchTerms[1]>>) > 0
    /\ calculateRelevance(item, <<searchTerms[2]>>) > 0
    /\ relevance > calculateRelevance(item, <<searchTerms[2]>>)

-----------------------------------------------------------------------------
(* Properties of useSearch, checked under SpecSearch                       *)

\* the query is empty or holds whitespace only
BlankQuery == \A i \in 1..Len(searchQuery) : searchQuery[i] \in Whitespace

\* the lower-cased query terms: the maximal runs of the lower-cased query
\* that hold no whitespace
QueryTerms ==
    LET q == toLowerCase(searchQuery)
        n == Len(q)
        runs == {r \in (1..n) \X (1..n) :
                    /\ r[1] <= r[2]
                    /\ \A k \in r[1]..r[2] : q[k] \notin Whitespace
                    /\ r[1] = 1 \/ q[r[1] - 1] \in Whitespace
                    /\ r[2] = n \/ q[r[2] + 1] \in Whitespace}
    IN  {SubSeq(q, r[1], r[2]) : r \in runs}

InResult(it) == \E m \in 1..Len(filteredItems) : filteredItems[m] = it

InCorpus(it) == \E k \in 1..Len(searchItems) : searchItems[k] = it

\* C19: with a query that is empty or holds whitespace only the result is
\* the corpus, the same documents in the same order, and isSearching (the
\* hasQuery flag) is false.
C19_BlankQueryReturnsCorpus ==
    BlankQuery => (filteredItems = searchItems /\ isSearching = FALSE)

\* a query of whitespace was set over a corpus of several documents
C19_Witness ==
    /\ searchQuery = QueryWhitespace
    /\ Len(searchItems) >= 2
    /\ filteredItems = searchItems
    /\ isSearching = FALSE

\* C20: with a query that is not blank a document of the corpus is in the
\* result exactly if the lower-cased title + " " + preview holds at least
\* one lower-cased query term as a substring; the full text does not count,
\* and one term out of several is enough.  The result holds documents of
\* the corpus only.
C20_MatchesSomeTerm ==
    ~BlankQuery =>
        /\ \A k \in 1..Len(searchItems) :
              InResult(searchItems[k])
                 <=> \E term \in QueryTerms :
                        Contains(toLowerCase(searchItems[k].title \o <<" ">>
                                             \o searchItems[k].content_preview),
                                 term)
        /\ \A m \in 1..Len(filteredItems) : InCorpus(filteredItems[m])

\* two terms of which only "hello" occurs: search2 has it in the title and
\* is returned, search4 has it in content_full only and is not
C20_Witness ==
    /\ searchQuery = QueryZzzHello
    /\ InCorpus(search2) /\ InResult(search2)
    /\ InCorpus(search4) /\ ~InResult(search4)

\* the terms of the query the result was computed for
Terms == termsOf(searchQuery)

\* the place of a document in the corpus (the corpora hold no document twice)
PlaceInCorpus(it) == CHOOSE k \in 1..Len(searchItems) : searchItems[k] = it

\* C21: with a query that is not blank the relevance scores along the
\* result never increase, and two documents of the result with equal
\* relevance stand in the order they have in the corpus.
C21_RankedByRelevance ==
    ~BlankQuery =>
        LET score == [m \in 1..Len(filteredItems) |->
                         calculateRelevance(filteredItems[m], Terms)]
        IN  \A m, n \in 1..Len(filteredItems) :
                m < n =>
                    /\ score[m] >= score[n]
                    /\ score[m] = score[n]
                          => PlaceInCorpus(filteredItems[m])
                                < PlaceInCorpus(filteredItems[n])

\* search6 and search2 tie and keep their order, both go before search1,
\* which stood first in the corpus
C21_Witness ==
    /\ searchQuery = QueryHello
    /\ searchItems = <<search1, search6, search2>>
    /\ filteredItems = <<search6, search2, search1>>


\* C22: isSearching (the hasQuery flag) is true exactly when the query is
\* not empty after trimming, hasResults is true exactly when the result is
\* not empty, and over the empty corpus every query gives the empty result
\* with hasResults false.
C22_Flags ==
    /\ isSearching = ~BlankQuery
    /\ hasResults = (filteredItems # << >>)
    /\ searchItems = << >> => (filteredItems = << >> /\ hasResults = FALSE)

\* a query with a term was set over the empty corpus
C22_Witness ==
    /\ searchItems = << >>
    /\ searchQuery = QueryHello
    /\ filteredItems = << >>
    /\ hasResults = FALSE
    /\ isSearching = TRUE


\* the terms with every repetition of a term dropped
RECURSIVE Distinct(_)
Distinct(terms) ==
    IF terms = << >> THEN << >>
    ELSE LET front == Distinct(SubSeq(terms, 1, Len(terms) - 1))
             last == terms[Len(terms)]
         IN  IF \E k \in 1..Len(front) : front[k] = last THEN front
             ELSE Append(front, last)

\* C25: the terms of a query form a set: a term written more than once
\* counts once, so with the repetitions dropped every document of the
\* corpus has the same relevance and the result is the same.
C25_TermsFormASet ==
    ~BlankQuery =>
        /\ \A k \in 1..Len(searchItems) :
              calculateRelevance(searchItems[k], Terms)
                 = calculateRelevance(searchItems[k], Distinct(Terms))
        /\ filteredItems
              = sortByRelevance(matchedItems(searchItems, Distinct(Terms)),
                                Distinct(Terms))

\* C26: every document returned for a query that is not blank has a
\* relevance of at least 7 for that query.
C26_ReturnedScoreAtLeast7 ==
    ~BlankQuery =>
        \A m \in 1..Len(filteredItems) :
            calculateRelevance(filteredItems[m], Terms) >= 7

\* search7 holds "c++" once in the preview, not as a whole word, and
\* nowhere else: it is returned with the least score there is
C26_Witness ==
    /\ searchQuery = QueryCpp
    /\ InResult(search7)
    /\ calculateRelevance(search7, Terms) = 7


-----------------------------------------------------------------------------
(* Further properties of useRecommendations, checked under Spec            *)

\* C27: there is no threshold on the score: with a present reference and a
\* limit >= 0 the hook returns exactly min(limit, number of corpus entries
\* with another id than the reference) posts, and where the limit leaves
\* room for all of them also those whose similarity is 0.
C27_NoScoreThreshold ==
    (Recommended /\ limit >= 0) =>
        /\ Len(recommendations) = Min(limit, Cardinality(CandidateIndices))
        /\ limit >= Cardinality(CandidateIndices)
              => \A j \in CandidateIndices :
                    \E i \in 1..Len(recommendations) :
                        recommendations[i] = allPosts[j]

\* every returned post has similarity 0, and the limit is used up
C27_Witness ==
    /\ Recommended
    /\ limit = 2
    /\ Len(recommendations) = 2
    /\ \A i \in 1..2 : scoreOf(recommendations[i]) = 0

\* a post that shares nothing with the reference but lies less than 365 days
\* from it
Unrelated(post) ==
    /\ post.id # currentPost.id
    /\ K(currentPost) # {}
    /\ K(post) # {}
    /\ K(currentPost) \cap K(post) = {}
    /\ post.user_id # currentPost.user_id
    /\ Abs(post.created_at - currentPost.created_at) < HoursPerYear

\* C28: a post with another id, another author and no keyword in common
\* with the reference, both keyword sets non-empty, has a similarity > 0
\* when the two createdAt are less than 365 days apart, so in the result it
\* stands before every post whose keyword set is empty.
C28_UnrelatedAboveEmpty ==
    Recommended =>
        \A j \in 1..Len(allPosts) :
            Unrelated(allPosts[j]) =>
                /\ scoreOf(allPosts[j]) > 0
                /\ \A m \in 1..Len(recommendations) :
                      K(recommendations[m]) = {}
                         => \E n \in 1..(m - 1) :
                               recommendations[n] = allPosts[j]

\* doc3 shares nothing with doc1 and is a day younger, doc4 has no keyword
\* and stands first in the corpus
C28_Witness ==
    /\ Recommended
    /\ currentPost = doc1
    /\ allPosts = <<doc4, doc3>>
    /\ Unrelated(doc3)
    /\ K(doc4) = {}
    /\ recommendations = <<doc3, doc4>>


-----------------------------------------------------------------------------
(* The three hooks in one page that renders them again and again.  The    *)
(* page changes the arguments of a hook, the clock moves on, and each     *)
(* render of a hook goes through its useMemo.                             *)

\* useMemo(factory, deps): the cell kept from the last computation while
\* the dependencies are the same, a new cell with the factory's value
\* otherwise.  Arrays and posts are compared as references; the arrays and
\* posts of the page are different objects with different contents, so the
\* same reference is the same value here.
useMemo(kept, deps, fresh) ==
    IF kept # NoMemo /\ kept.deps = deps THEN kept
    ELSE [deps |-> deps, value |-> fresh]

\* What the caller's allPosts holds after useRecommendations ran: filter
\* (line 71) and map (line 72) each give a new array and sort (line 76)
\* orders the array map gave, in place; allPosts is only read.
allPostsAfter(cur, posts, lim) == posts

\* What the caller's posts holds after useTrendingPosts ran: map (line 93)
\* gives a new array and sort (line 101) orders that one in place.
postsAfter(posts, lim, clock) == posts

\* itemsAfter as it would be with items.sort(...) in front of the filter
itemsAfter_sortInPlace(its, query) ==
    IF trim(query) = << >> \/ Len(termsOf(query)) = 0 THEN its
    ELSE sortByRelevance(its, termsOf(query))

\* What the caller's items holds after useSearch ran: the early returns hand
\* items back as it is, filter (line 69) gives a new array and sort (line
\* 75) orders that one in place.
itemsAfter(its, query) == its

PageReferences == {doc1, NoPost}
\* doc3 twice in the second corpus
PageAllPosts == {<<doc3, doc2, doc1>>, <<doc1, doc4, doc3, doc3>>}
\* the limit PostDetail passes (line 31)
PageLimit == 3
PageTrendPosts == {<<trend1, trend2>>, <<trend3, trend2, trend2>>}
\* an hour at which every post scores above 0, and one at which trend1,
\* trend2 and trend3 all score 0
PageClocks == {100, ZeroAgeHours + 100}
PageItems == {<<search1, search2>>, <<search7, search5, search5>>}
PageQueries == {Empty, QueryHello}

InitPage ==
    /\ currentPost \in PageReferences
    /\ allPosts \in PageAllPosts
    /\ limit = PageLimit
    /\ recommendations = << >>
    /\ recPc = "off"
    /\ trendPosts \in PageTrendPosts
    /\ trendLimit = TrendDefaultLimit
    /\ now = 100
    /\ trendingPosts = << >>
    /\ trendPc = "off"
    /\ searchItems \in PageItems
    /\ searchQuery = Empty
    /\ filteredItems = << >>
    /\ hasResults = FALSE
    /\ isSearching = FALSE
    /\ memo = [h \in Hooks |-> NoMemo]
    /\ pending = Hooks
    /\ SimIdle
    /\ TokIdle
    /\ RelIdle
    /\ DetailIdle

\* the page hands other arguments to useRecommendations
SetRecommendProps(cur, posts) ==
    /\ currentPost' = cur
    /\ allPosts' = posts
    /\ pending' = pending \cup {"useRecommendations"}
    /\ UNCHANGED <<limit, recommendations, recPc, memo>>
    /\ UNCHANGED <<simVars, tokVars, trendVars, relVars, searchVars, detailVars>>

\* lines 59-81, one render
RenderRecommendations ==
    /\ "useRecommendations" \in pending
    /\ LET cell == useMemo(memo["useRecommendations"],
                           <<currentPost, allPosts, limit>>,
                           useRecommendations(currentPost, allPosts, limit))
       IN  /\ memo' = [memo EXCEPT !["useRecommendations"] = cell]
           /\ recommendations' = cell.value
    /\ allPosts' = allPostsAfter(currentPost, allPosts, limit)
    /\ pending' = pending \ {"useRecommendations"}
    /\ UNCHANGED <<currentPost, limit, recPc>>
    /\ UNCHANGED <<simVars, tokVars, trendVars, relVars, searchVars, detailVars>>

\* the page hands another corpus to useTrendingPosts
SetTrendingProps(posts) ==
    /\ trendPosts' = posts
    /\ pending' = pending \cup {"useTrendingPosts"}
    /\ UNCHANGED <<trendLimit, now, trendingPosts, trendPc, memo>>
    /\ UNCHANGED <<recVars, simVars, tokVars, relVars, searchVars, detailVars>>

\* time passes; the next render of useTrendingPosts is a call at this hour
AdvanceClock(clock) ==
    /\ clock > now
    /\ now' = clock
    /\ pending' = pending \cup {"useTrendingPosts"}
    /\ UNCHANGED <<trendPosts, trendLimit, trendingPosts, trendPc, memo>>
    /\ UNCHANGED <<recVars, simVars, tokVars, relVars, searchVars, detailVars>>

\* lines 84-105, one render: the clock is read inside the factory (line 89)
\* and is none of the dependencies [posts, limit] (line 104)
RenderTrending ==
    /\ "useTrendingPosts" \in pending
    /\ LET cell == useMemo(memo["useTrendingPosts"],
                           <<trendPosts, trendLimit>>,
                           useTrendingPosts(trendPosts, trendLimit, now))
       IN  /\ memo' = [memo EXCEPT !["useTrendingPosts"] = cell]
           /\ trendingPosts' = cell.value
    /\ trendPosts' = postsAfter(trendPosts, trendLimit, now)
    /\ pending' = pending \ {"useTrendingPosts"}
    /\ UNCHANGED <<trendLimit, now, trendPc>>
    /\ UNCHANGED <<recVars, simVars, tokVars, relVars, searchVars, detailVars>>

\* the page hands another corpus to useSearch
SetSearchItems(its) ==
    /\ searchItems' = its
    /\ pending' = pending \cup {"useSearch"}
    /\ UNCHANGED <<searchQuery, filteredItems, hasResults, isSearching, memo>>
    /\ UNCHANGED <<recVars, simVars, tokVars, trendVars, relVars, detailVars>>

\* setSearchQuery(query) of line 52
QueueSearchQuery(query) ==
    /\ searchQuery' = query
    /\ pending' = pending \cup {"useSearch"}
    /\ UNCHANGED <<searchItems, filteredItems, hasResults, isSearching, memo>>
    /\ UNCHANGED <<recVars, simVars, tokVars, trendVars, relVars, detailVars>>

\* lines 51-89, one render
RenderSearch ==
    /\ "useSearch" \in pending
    /\ LET cell == useMemo(memo["useSearch"],
                           <<searchItems, searchQuery>>,
                           filteredAndRankedItems(searchItems, searchQuery))
       IN  /\ memo' = [memo EXCEPT !["useSearch"] = cell]
           /\ filteredItems' = cell.value
           /\ hasResults' = (Len(cell.value) > 0)
    /\ isSearching' = (Len(trim(searchQuery)) > 0)
    /\ searchItems' = itemsAfter(searchItems, searchQuery)
    /\ pending' = pending \ {"useSearch"}
    /\ UNCHANGED searchQuery
    /\ UNCHANGED <<recVars, simVars, tokVars, trendVars, relVars, detailVars>>

NextPage ==
    \/ \E cur \in PageReferences, posts \in PageAllPosts :
          SetRecommendProps(cur, posts)
    \/ RenderRecommendations
    \/ \E posts \in PageTrendPosts : SetTrendingProps(posts)
    \/ \E clock \in PageClocks : AdvanceClock(clock)
    \/ RenderTrending
    \/ \E its \in PageItems : SetSearchItems(its)
    \/ \E query \in PageQueries : QueueSearchQuery(query)
    \/ RenderSearch

SpecPage == InitPage /\ [][NextPage]_vars

-----------------------------------------------------------------------------
(* Properties of the three hooks, checked under SpecPage                   *)

\* the hook has returned for the arguments, and the clock, that stand now
Returned(h) == h \notin pending

\* the step is a render of the hook
Renders(h) == h \in pending /\ h \notin pending'

C24_FunctionOfArguments ==
    /\ Returned("useRecommendations")
          => recommendations = useRecommendations(currentPost, allPosts, limit)
    /\ Returned("useTrendingPosts")
          => trendingPosts = useTrendingPosts(trendPosts, trendLimit, now)
    /\ Returned("useSearch")
          => filteredItems = filteredAndRankedItems(searchItems, searchQuery)

\* how often x stands in seq
Occurs(seq, x) == Cardinality({i \in 1..Len(seq) : seq[i] = x})

\* every entry of out is an entry of corpus and stands in out no more
\* often than in corpus
DropsAndRearranges(out, corpus) ==
    \A i \in 1..Len(out) :
        /\ Occurs(corpus, out[i]) >= 1
        /\ Occurs(out, out[i]) <= Occurs(corpus, out[i])

\* C29: what useRecommendations, useTrendingPosts and useSearch return
\* holds entries of the corpus only, none more often than the corpus does.
C29_OnlyCorpusEntries ==
    /\ Returned("useRecommendations")
          => DropsAndRearranges(recommendations, allPosts)
    /\ Returned("useTrendingPosts")
          => DropsAndRearranges(trendingPosts, trendPosts)
    /\ Returned("useSearch")
          => DropsAndRearranges(filteredItems, searchItems)

\* entries are dropped (doc1 by its id, search7 by the filter) and an
\* entry that stands twice in the corpus is returned twice
C29_Witness ==
    /\ pending = {}
    /\ currentPost = doc1
    /\ allPosts = <<doc1, doc4, doc3, doc3>>
    /\ recommendations = <<doc3, doc3, doc4>>
    /\ trendPosts = <<trend3, trend2, trend2>>
    /\ Occurs(trendingPosts, trend2) = 2
    /\ searchItems = <<search7, search5, search5>>
    /\ searchQuery = QueryHello
    /\ filteredItems = <<search5, search5>>


-----------------------------------------------------------------------------
(* The PostDetail page: the route id changes while the page stays         *)
(* mounted, every change starts fetchPost and fetchAllPosts, and the      *)
(* answers of the database come back in any order.  A post is held by its *)
(* id; the post state is the reference handed to useRecommendations       *)
(* (line 31).                                                              *)

MaxNavigations == 2

PostIds == {"A", "B"}

\* .order("created_at", { ascending: false }) over the rows of the table
RowsNewestFirst == <<"B", "A">>

Fetch(postId, stage) == [postId |-> postId, stage |-> stage]

\* the effect of lines 33-38: fetchPost(id) and fetchAllPosts() start and
\* run up to their first await
effectStarted(fetches, newId) == Append(fetches, Fetch(newId, "post"))

InitDetail ==
    /\ routeId \in PostIds
    /\ detailPost = "none"
    /\ detailAllPosts = << >>
    /\ loading = TRUE
    /\ postFetches = effectStarted(<< >>, routeId)
    /\ allPostsFetches = <<"posts">>
    /\ rows \in SUBSET PostIds
    /\ navigations = 0
    /\ RecIdle
    /\ SimIdle
    /\ TokIdle
    /\ TrendIdle
    /\ RelIdle
    /\ SearchIdle
    /\ MemoIdle

\* a link to another post is followed: useParams gives another id and the
\* effect runs again (its dependency is [id]); nothing is cancelled and no
\* state is reset
Navigate(newId) ==
    /\ navigations < MaxNavigations
    /\ newId # routeId
    /\ routeId' = newId
    /\ postFetches' = effectStarted(postFetches, newId)
    /\ allPostsFetches' = Append(allPostsFetches, "posts")
    /\ navigations' = navigations + 1
    /\ UNCHANGED <<detailPost, detailAllPosts, loading, rows>>
    /\ UNCHANGED <<recVars, simVars, tokVars, trendVars, relVars, searchVars,
                   memoVars>>

\* lines 41-50: the posts query of the i-th fetchPost answers; a missing
\* row (or an error) ends the call with setLoading(false)
PostQueryAnswers(i) ==
    /\ postFetches[i].stage = "post"
    /\ IF postFetches[i].postId \in rows
       THEN /\ postFetches' = [postFetches EXCEPT ![i].stage = "profile"]
            /\ UNCHANGED loading
       ELSE /\ postFetches' = [postFetches EXCEPT ![i].stage = "done"]
            /\ loading' = FALSE
    /\ UNCHANGED <<routeId, detailPost, detailAllPosts, allPostsFetches, rows,
                   navigations>>
    /\ UNCHANGED <<recVars, simVars, tokVars, trendVars, relVars, searchVars,
                   memoVars>>

\* lines 53-64: the profiles query of the i-th fetchPost answers: setPost
\* with the post this call fetched, whatever the route id is by now
ProfileQueryAnswers(i) ==
    /\ postFetches[i].stage = "profile"
    /\ detailPost' = postFetches[i].postId
    /\ loading' = FALSE
    /\ postFetches' = [postFetches EXCEPT ![i].stage = "done"]
    /\ UNCHANGED <<routeId, detailAllPosts, allPostsFetches, rows, navigations>>
    /\ UNCHANGED <<recVars, simVars, tokVars, trendVars, relVars, searchVars,
                   memoVars>>

\* lines 68-79: the posts query of the j-th fetchAllPosts answers
AllPostsQueryAnswers(j) ==
    /\ allPostsFetches[j] = "posts"
    /\ allPostsFetches' = [allPostsFetches EXCEPT ![j] = "profiles"]
    /\ UNCHANGED <<routeId, detailPost, detailAllPosts, loading, postFetches,
                   rows, navigations>>
    /\ UNCHANGED <<recVars, simVars, tokVars, trendVars, relVars, searchVars,
                   memoVars>>

\* lines 76-89: the profiles query of the j-th fetchAllPosts answers
AllProfilesQueryAnswers(j) ==
    /\ allPostsFetches[j] = "profiles"
    /\ allPostsFetches' = [allPostsFetches EXCEPT ![j] = "done"]
    /\ detailAllPosts' = SelectSeq(RowsNewestFirst, LAMBDA r : r \in rows)
    /\ UNCHANGED <<routeId, detailPost, loading, postFetches, rows, navigations>>
    /\ UNCHANGED <<recVars, simVars, tokVars, trendVars, relVars, searchVars,
                   memoVars>>

NextDetail ==
    \/ \E newId \in PostIds : Navigate(newId)
    \/ \E i \in 1..Len(postFetches) : PostQueryAnswers(i)
    \/ \E i \in 1..Len(postFetches) : ProfileQueryAnswers(i)
    \/ \E j \in 1..Len(allPostsFetches) : AllPostsQueryAnswers(j)
    \/ \E j \in 1..Len(allPostsFetches) : AllProfilesQueryAnswers(j)

SpecDetail == InitDetail /\ [][NextDetail]_vars

-----------------------------------------------------------------------------
(* Properties of PostDetail, checked under SpecDetail                      *)

NoFetchOutstanding ==
    /\ \A i \in 1..Len(postFetches) : postFetches[i].stage = "done"
    /\ \A j \in 1..Len(allPostsFetches) : allPostsFetches[j] = "done"

\* C30: once the route id has changed and every fetch has answered, the
\* post shown, the reference of useRecommendations, is the post of the
\* route id (both posts are rows of the table): an answer for the earlier
\* id never overwrites the one for the later id.
C30_LatestRouteShown ==
    (navigations >= 1 /\ rows = PostIds /\ NoFetchOutstanding)
        => detailPost = routeId

====
